---------------------------- MODULE Spec2Model ----------------------------
(***************************************************************************)
(* Model of the Spark! Bytes backend: signup, login, bearer tokens, the    *)
(* authenticated profile route and the event CRUD routes.                  *)
(*                                                                         *)
(* Strings the code inspects character by character (email, password,      *)
(* names) are sequences of one-character strings.  Time is counted in      *)
(* minutes.  Handlers that query and then insert (signup, create-event)    *)
(* are two steps, so that two requests can interleave between the query    *)
(* and the commit as they do on FastAPI's thread pool; handlers with one   *)
(* database round trip are one step.                                       *)
(***************************************************************************)
EXTENDS Integers, Sequences, FiniteSets, TLC

VARIABLES
    env,         \* the process environment (.env): SECRET_KEY, ALGORITHM, DATABASE_URL
    phase,       \* "boot" before the modules are imported, then "serving" or "failed"
    SECRET_KEY,  \* app.auth.SECRET_KEY
    ALGORITHM,   \* app.auth.ALGORITHM
    users,       \* rows of table users
    userSeq,     \* next value of users.id (SERIAL)
    events,      \* rows of table events
    eventSeq,    \* next value of events.id (SERIAL)
    inflight,    \* requests that passed their existence query and have not committed
    now,         \* the clock, in minutes
    held,        \* the token a client keeps, with its issuance facts
    last         \* the response produced by the step just taken

vars == <<env, phase, SECRET_KEY, ALGORITHM, users, userSeq, events, eventSeq,
          inflight, now, held, last>>

dbVars == <<users, userSeq, events, eventSeq, inflight>>
cfgVars == <<env, phase, SECRET_KEY, ALGORITHM>>

---------------------------------------------------------------------------
(* Bounds of the model *)

MaxTime == 45
TickStep == 15
MaxUserId == 3
MaxEventId == 2
MaxInFlight == 2

(* Program constants *)

ACCESS_TOKEN_EXPIRE_MINUTES == 30
MinPasswordLen == 8

None == "None"

---------------------------------------------------------------------------
(* Request payloads *)

Digits == {"0", "1", "2", "3", "4", "5", "6", "7", "8", "9"}
UpperCase == {"A", "B", "C", "D", "E", "F", "G", "H", "I", "J", "K", "L", "M",
              "N", "O", "P", "Q", "R", "S", "T", "U", "V", "W", "X", "Y", "Z"}
LowerCase == {"a", "b", "c", "d", "e", "f", "g", "h", "i", "j", "k", "l", "m",
              "n", "o", "p", "q", "r", "s", "t", "u", "v", "w", "x", "y", "z"}

Email1 == <<"u", "@", "x">>
Email2 == <<"v", "@", "x">>
EmailNoAt == <<"u", "x">>
Empty == <<>>

Pwd1 == <<"A", "b", "c", "d", "e", "f", "g", "1">>
Pwd2 == <<"P", "a", "s", "s", "w", "0", "r", "d">>
PwdNoUpper == <<"a", "b", "c", "d", "e", "f", "g", "1">>
PwdNoLower == <<"A", "B", "C", "D", "E", "F", "G", "1">>
PwdNoDigit == <<"A", "b", "c", "d", "e", "f", "g", "h">>
PwdShort == <<"s", "h", "o", "r", "t", "1", "A">>

NameA == <<"A">>
NameB == <<"B">>

CreateUser(e, p, f, l) ==
    [email |-> e, password |-> p, first_name |-> f, last_name |-> l]

LoginUser(e, p) == [email |-> e, password |-> p]

SignupRequests ==
    { CreateUser(Email1, Pwd1, NameA, NameB),
      CreateUser(Email1, Pwd2, NameA, NameB),
      CreateUser(Email2, Pwd2, NameA, NameB),
      CreateUser(Empty, Pwd1, NameA, NameB),
      CreateUser(Email1, Empty, NameA, NameB),
      CreateUser(Email1, Pwd1, Empty, NameB),
      CreateUser(Email1, Pwd1, NameA, Empty),
      CreateUser(EmailNoAt, Pwd1, NameA, NameB),
      CreateUser(Email1, PwdShort, NameA, NameB),
      CreateUser(Email1, PwdNoUpper, NameA, NameB),
      CreateUser(Email2, PwdNoLower, NameA, NameB),
      CreateUser(Email1, PwdNoDigit, NameA, NameB) }

LoginRequests ==
    { LoginUser(Email1, Pwd1), LoginUser(Email1, Pwd2), LoginUser(Email2, Pwd2),
      LoginUser(Email1, Empty), LoginUser(Empty, Pwd1) }

CreateEvent(n, d, l, dt, t) ==
    [name |-> n, description |-> d, location |-> l, date |-> dt, time |-> t]

EventRequests ==
    { CreateEvent("Hack Night", "d", "l", "2025", "6pm"),
      CreateEvent("Hack Night", "other", "l", "2025", "6pm"),
      CreateEvent("Gala", "d", "l", "2025", "7pm"),
      CreateEvent("", "d", "l", "2025", "6pm"),
      CreateEvent("Gala", "d", "l", "2025", "") }

EventIds == 1 .. (MaxEventId + 1)

Salts == {"s1", "s2"}

---------------------------------------------------------------------------
(* Responses *)

NoResponse == [op |-> "none"]

Response(op, req, status, detail, body) ==
    [op |-> op, req |-> req, status |-> status, detail |-> detail, body |-> body]

HTTPException(op, req, status, detail) == Response(op, req, status, detail, None)

InternalServerError(op, req) ==
    Response(op, req, 500, "Internal Server Error", None)

UserResponse(u) ==
    [id |-> u.id, email |-> u.email, first_name |-> u.first_name,
     last_name |-> u.last_name]

EventResponse(e) == [id |-> e.id, name |-> e.name]

---------------------------------------------------------------------------
(* Text helpers: Python truthiness, the "in" operator and re.search with a   *)
(* one-character class                                                       *)

Contains(s, c) == \E i \in 1 .. Len(s) : s[i] = c

Search(class, s) == \E i \in 1 .. Len(s) : s[i] \in class

---------------------------------------------------------------------------
(* Credential hasher (passlib bcrypt): a hash carries its salt; the digest  *)
(* is a function of salt and plaintext                                       *)

Digest(salt, password) == <<"bcrypt", salt, password>>

hash_pwd(password, salt) == [salt |-> salt, digest |-> Digest(salt, password)]

verify_pwd_AnyPassword(plain_password, hashed_password) == TRUE

verify_pwd(plain_password, hashed_password) ==
    hashed_password.digest = Digest(hashed_password.salt, plain_password)

---------------------------------------------------------------------------
(* Token service.  A token is its claims set, the key and the algorithm it  *)
(* was signed with; a string that is no JWT has fmt "garbage".              *)

NoDelta == [given |-> FALSE, minutes |-> 0]
timedelta(m) == [given |-> TRUE, minutes |-> m]

\* Python truthiness of expires_delta: None and timedelta(0) are both falsy
Falsy(expires_delta) == ~expires_delta.given \/ expires_delta.minutes = 0

Token(payload, key, alg) == [fmt |-> "jwt", payload |-> payload, key |-> key, alg |-> alg]

Garbage == [fmt |-> "garbage", payload |-> [exp |-> 0], key |-> None, alg |-> None]

EncodeError == [fmt |-> "error", payload |-> [exp |-> 0], key |-> None, alg |-> None]

\* expire = now + (expires_delta or timedelta(minutes=ACCESS_TOKEN_EXPIRE_MINUTES))
Expire(expires_delta) ==
    now + (IF Falsy(expires_delta) THEN ACCESS_TOKEN_EXPIRE_MINUTES
                                   ELSE expires_delta.minutes)

\* jwt.encode raises when the key or the algorithm is None
create_access_token(data, expires_delta) ==
    IF SECRET_KEY = None \/ ALGORITHM = None
    THEN EncodeError
    ELSE Token([k \in DOMAIN data \cup {"exp"} |->
                   IF k = "exp" THEN Expire(expires_delta) ELSE data[k]],
               SECRET_KEY, ALGORITHM)

JWTError_ExpiresEarly(token) ==
    \/ token.fmt # "jwt"
    \/ SECRET_KEY = None
    \/ ALGORITHM = None
    \/ token.alg # ALGORITHM
    \/ token.key # SECRET_KEY
    \/ ("exp" \in DOMAIN token.payload /\ token.payload.exp <= now)

\* jwt.decode(token, SECRET_KEY, algorithms=[ALGORITHM]) raises JWTError
JWTError(token) ==
    \/ token.fmt # "jwt"
    \/ SECRET_KEY = None
    \/ ALGORITHM = None
    \/ token.alg # ALGORITHM
    \/ token.key # SECRET_KEY
    \/ ("exp" \in DOMAIN token.payload /\ token.payload.exp < now)

HasSub(token) == "sub" \in DOMAIN token.payload

---------------------------------------------------------------------------
(* Persistence: the queries the handlers run *)

\* db.query(User).filter(User.email == email)
UsersByEmail(email) == {u \in users : u.email = email}

get_event_WrongColumn(name) == {e \in events : e.description = name}

\* get_event(db, name)
get_event(name) == {e \in events : e.name = name}

EventsById_NoFilter(event_id) == events

\* db.query(Event).filter(Event.id == event_id)
EventsById(event_id) == {e \in events : e.id = event_id}

\* unique=True on users.email: the INSERT raises IntegrityError
UniqueViolation(email) == UsersByEmail(email) # {}

PendingSignups == {r \in inflight : r.op = "signup"}
PendingCreates == {r \in inflight : r.op = "create-event"}

---------------------------------------------------------------------------
(* Startup: importing app.main imports app.database, then app.auth *)

\* create_engine(DATABASE_URL) at import time raises on None
EngineError == env.DATABASE_URL = None

Startup ==
    /\ phase = "boot"
    /\ IF EngineError
       THEN /\ phase' = "failed"
            /\ UNCHANGED <<SECRET_KEY, ALGORITHM>>
       ELSE /\ phase' = "serving"
            /\ SECRET_KEY' = env.SECRET_KEY
            /\ ALGORITHM' = env.ALGORITHM
    /\ last' = NoResponse
    /\ UNCHANGED <<env, dbVars, now, held>>

\* the clock advances between requests
Tick ==
    /\ now + TickStep <= MaxTime
    /\ now' = now + TickStep
    /\ last' = NoResponse
    /\ UNCHANGED <<cfgVars, dbVars, held>>

---------------------------------------------------------------------------
(* POST /signup *)

SignupInvalid_NoUpperCheck(user) ==
    IF \/ user.email = Empty \/ user.password = Empty
       \/ user.first_name = Empty \/ user.last_name = Empty
    THEN "Email, password, and name are required."
    ELSE IF ~Contains(user.email, "@")
    THEN "Invalid email address. Please provide a valid email address."
    ELSE IF Len(user.password) < MinPasswordLen
    THEN "Password must be at least 8 characters."
    ELSE IF \/ ~Search(Digits, user.password)
            \/ ~Search(LowerCase, user.password)
    THEN "Password must contain at least one lowercase letter, uppercase letter, and number."
    ELSE ""

\* the four checks before the database is read; "" when all pass
SignupInvalid(user) ==
    IF \/ user.email = Empty \/ user.password = Empty
       \/ user.first_name = Empty \/ user.last_name = Empty
    THEN "Email, password, and name are required."
    ELSE IF ~Contains(user.email, "@")
    THEN "Invalid email address. Please provide a valid email address."
    ELSE IF Len(user.password) < MinPasswordLen
    THEN "Password must be at least 8 characters."
    ELSE IF \/ ~Search(Digits, user.password)
            \/ ~Search(UpperCase, user.password)
            \/ ~Search(LowerCase, user.password)
    THEN "Password must contain at least one lowercase letter, uppercase letter, and number."
    ELSE ""

existing_user_Skipped(user) == {}

\* existing_user = db.query(User).filter(User.email == user.email).first()
existing_user(user) == UsersByEmail(user.email)

\* validation and the existing-user query
SignupCheck(user) ==
    /\ phase = "serving"
    /\ IF SignupInvalid(user) # ""
       THEN /\ last' = HTTPException("signup", user, 422, SignupInvalid(user))
            /\ UNCHANGED inflight
       ELSE IF existing_user(user) # {}
       THEN /\ last' = HTTPException("signup", user, 400,
                                     "Email already registered in Spark! Bytes.")
            /\ UNCHANGED inflight
       ELSE /\ Cardinality(inflight) < MaxInFlight
            /\ userSeq + Cardinality(PendingSignups) <= MaxUserId
            /\ inflight' = inflight \cup {[op |-> "signup", req |-> user]}
            /\ last' = NoResponse
    /\ UNCHANGED <<cfgVars, users, userSeq, events, eventSeq, now, held>>

\* hash, db.add, db.commit, db.refresh; an IntegrityError is not caught
SignupCommit(user, salt) ==
    /\ [op |-> "signup", req |-> user] \in inflight
    /\ inflight' = inflight \ {[op |-> "signup", req |-> user]}
    /\ userSeq' = userSeq + 1
    /\ LET new_user == [id |-> userSeq, email |-> user.email,
                        password |-> hash_pwd(user.password, salt),
                        first_name |-> user.first_name,
                        last_name |-> user.last_name]
       IN IF UniqueViolation(user.email)
          THEN /\ users' = users
               /\ last' = InternalServerError("signup", user)
          ELSE /\ users' = users \cup {new_user}
               /\ last' = Response("signup", user, 200, "", UserResponse(new_user))
    /\ UNCHANGED <<cfgVars, events, eventSeq, now, held>>

---------------------------------------------------------------------------
(* POST /login *)

NoToken == [tok |-> Garbage, iat |-> 0, delta |-> NoDelta, by |-> "none"]

Login_Rehash(user) ==
    /\ phase = "serving"
    /\ IF user.email = Empty \/ user.password = Empty
       THEN /\ last' = HTTPException("login", user, 400, "Email and password are required.")
            /\ UNCHANGED <<held, users>>
       ELSE IF \/ UsersByEmail(user.email) = {}
               \/ \A u \in UsersByEmail(user.email) : ~verify_pwd(user.password, u.password)
       THEN /\ last' = HTTPException("login", user, 400,
                                     "Incorrect email or password. Please try again.")
            /\ UNCHANGED <<held, users>>
       ELSE LET u == CHOOSE u \in UsersByEmail(user.email) : TRUE
                token == create_access_token([sub |-> u.email], NoDelta)
            IN /\ users' = (users \ {u}) \cup
                              {[u EXCEPT !.password = hash_pwd(user.password, "rehash")]}
               /\ last' = Response("login", user, 200, "",
                                   [access_token |-> token, token_type |-> "bearer"])
               /\ held' \in {held, [tok |-> token, iat |-> now,
                                    delta |-> NoDelta, by |-> "login"]}
    /\ UNCHANGED <<cfgVars, userSeq, events, eventSeq, inflight, now>>

Login(user) ==
    /\ phase = "serving"
    /\ IF user.email = Empty \/ user.password = Empty
       THEN /\ last' = HTTPException("login", user, 400, "Email and password are required.")
            /\ UNCHANGED held
       ELSE IF \/ UsersByEmail(user.email) = {}
               \/ \A u \in UsersByEmail(user.email) : ~verify_pwd(user.password, u.password)
       THEN /\ last' = HTTPException("login", user, 400,
                                     "Incorrect email or password. Please try again.")
            /\ UNCHANGED held
       ELSE LET u == CHOOSE u \in UsersByEmail(user.email) : TRUE
                token == create_access_token([sub |-> u.email], NoDelta)
            IN IF token = EncodeError
               THEN /\ last' = InternalServerError("login", user)
                    /\ UNCHANGED held
               ELSE /\ last' = Response("login", user, 200, "",
                                        [access_token |-> token, token_type |-> "bearer"])
                    /\ held' \in {held, [tok |-> token, iat |-> now,
                                         delta |-> NoDelta, by |-> "login"]}
    /\ UNCHANGED <<cfgVars, dbVars, now>>

---------------------------------------------------------------------------
(* get_current_user and GET /profile *)

credentials_exception(token) == HTTPException("profile", token, 401, "Invalid token")

\* the tokens a request may carry: the one a client holds, and forgeries
FarExp == MaxTime + ACCESS_TOKEN_EXPIRE_MINUTES
PresentedTokens ==
    {held.tok, Garbage}
    \cup {Token([sub |-> e, exp |-> x], k, "HS256") :
             e \in {Email1, Email2}, x \in {TickStep, FarExp}, k \in {"secret", "forged"}}
    \cup {Token([exp |-> x], k, "HS256") : x \in {FarExp}, k \in {"secret", "forged"}}

get_current_user_NotFound(token) ==
    IF JWTError(token)
    THEN credentials_exception(token)
    ELSE IF ~HasSub(token)
    THEN credentials_exception(token)
    ELSE IF UsersByEmail(token.payload.sub) = {}
    THEN HTTPException("profile", token, 404, "User not found")
    ELSE LET user == CHOOSE u \in UsersByEmail(token.payload.sub) : TRUE
         IN Response("profile", token, 200, "", UserResponse(user))

get_current_user(token) ==
    IF JWTError(token)
    THEN credentials_exception(token)
    ELSE IF ~HasSub(token)
    THEN credentials_exception(token)
    ELSE IF UsersByEmail(token.payload.sub) = {}
    THEN credentials_exception(token)
    ELSE LET user == CHOOSE u \in UsersByEmail(token.payload.sub) : TRUE
         IN Response("profile", token, 200, "", UserResponse(user))

read_current_user(token) ==
    /\ phase = "serving"
    /\ last' = get_current_user(token)
    /\ UNCHANGED <<cfgVars, dbVars, now, held>>

---------------------------------------------------------------------------
(* Events *)

get_all_events ==
    /\ phase = "serving"
    /\ last' = Response("events", None, 200, "", events)
    /\ UNCHANGED <<cfgVars, dbVars, now, held>>

EventInvalid(event) ==
    \/ event.name = "" \/ event.description = "" \/ event.location = ""
    \/ event.date = "" \/ event.time = ""

\* validation and existing_event = get_event(db, event.name)
event_creation(event) ==
    /\ phase = "serving"
    /\ IF EventInvalid(event)
       THEN /\ last' = HTTPException("create-event", event, 422,
                           "All fields are required (name, location, date, and time).")
            /\ UNCHANGED inflight
       ELSE IF get_event(event.name) # {}
       THEN /\ last' = HTTPException("create-event", event, 400,
                                     "Event already exists in Spark! Bytes.")
            /\ UNCHANGED inflight
       ELSE /\ Cardinality(inflight) < MaxInFlight
            /\ eventSeq + Cardinality(PendingCreates) <= MaxEventId
            /\ inflight' = inflight \cup {[op |-> "create-event", req |-> event]}
            /\ last' = NoResponse
    /\ UNCHANGED <<cfgVars, users, userSeq, events, eventSeq, now, held>>

\* crud.create_event: db.add, db.commit, db.refresh
create_event(event) ==
    /\ [op |-> "create-event", req |-> event] \in inflight
    /\ inflight' = inflight \ {[op |-> "create-event", req |-> event]}
    /\ eventSeq' = eventSeq + 1
    /\ LET db_event == [id |-> eventSeq, name |-> event.name,
                        description |-> event.description,
                        location |-> event.location,
                        date |-> event.date, time |-> event.time]
       IN /\ events' = events \cup {db_event}
          /\ last' = Response("create-event", event, 200, "", EventResponse(db_event))
    /\ UNCHANGED <<cfgVars, users, userSeq, now, held>>

update_event(event_id, updated_event) ==
    /\ phase = "serving"
    /\ IF EventsById(event_id) = {}
       THEN /\ last' = HTTPException("update-event", <<event_id, updated_event>>, 404,
                                     "Event not found.")
            /\ UNCHANGED events
       ELSE LET event == CHOOSE e \in EventsById(event_id) : TRUE
                updated == [id |-> event.id, name |-> updated_event.name,
                            description |-> updated_event.description,
                            location |-> updated_event.location,
                            date |-> updated_event.date, time |-> updated_event.time]
            IN /\ events' = (events \ {event}) \cup {updated}
               /\ last' = Response("update-event", <<event_id, updated_event>>, 200, "",
                                   EventResponse(updated))
    /\ UNCHANGED <<cfgVars, users, userSeq, eventSeq, inflight, now, held>>

delete_event(event_id) ==
    /\ phase = "serving"
    /\ IF EventsById(event_id) = {}
       THEN /\ last' = HTTPException("delete-event", event_id, 404, "Event not found.")
            /\ UNCHANGED events
       ELSE /\ events' = events \ EventsById(event_id)
            /\ last' = Response("delete-event", event_id, 200, "", None)
    /\ UNCHANGED <<cfgVars, users, userSeq, eventSeq, inflight, now, held>>

---------------------------------------------------------------------------
(* The token service called directly, with an explicit expires_delta: the   *)
(* caller keeps the token it gets                                            *)

Deltas == {NoDelta, timedelta(0), timedelta(TickStep), timedelta(0 - TickStep)}

IssueToken(sub, expires_delta) ==
    /\ phase = "serving"
    /\ create_access_token([sub |-> sub], expires_delta) # EncodeError
    /\ held' = [tok |-> create_access_token([sub |-> sub], expires_delta),
                iat |-> now, delta |-> expires_delta, by |-> "direct"]
    /\ last' = NoResponse
    /\ UNCHANGED <<cfgVars, dbVars, now>>

---------------------------------------------------------------------------
(* Specifications *)

Configured == [SECRET_KEY |-> "secret", ALGORITHM |-> "HS256", DATABASE_URL |-> "postgresql"]

Environments == [SECRET_KEY : {None, "secret"}, ALGORITHM : {None, "HS256"},
                 DATABASE_URL : {None, "postgresql"}]

InitWith(e) ==
    /\ env = e
    /\ phase = "boot"
    /\ SECRET_KEY = None
    /\ ALGORITHM = None
    /\ users = {}
    /\ userSeq = 1
    /\ events = {}
    /\ eventSeq = 1
    /\ inflight = {}
    /\ now = 0
    /\ held = NoToken
    /\ last = NoResponse

\* a deployment whose .env sets every variable
Init == InitWith(Configured)

\* any deployment
InitEnv == \E e \in Environments : InitWith(e)

\* the requests of the whole-system specification
CoreSignups ==
    { CreateUser(Email1, Pwd1, NameA, NameB),
      CreateUser(Email1, Pwd2, NameA, NameB),
      CreateUser(Email1, PwdShort, NameA, NameB) }

CoreLogins == { LoginUser(Email1, Pwd1), LoginUser(Email1, Pwd2) }

CoreEvents ==
    { CreateEvent("Hack Night", "d", "l", "2025", "6pm"),
      CreateEvent("Gala", "d", "l", "2025", "7pm"),
      CreateEvent("", "d", "l", "2025", "6pm") }

CoreSalts == {"s1"}

AccountStep ==
    \/ \E user \in CoreSignups : SignupCheck(user)
    \/ \E user \in CoreSignups, salt \in CoreSalts : SignupCommit(user, salt)
    \/ \E user \in CoreLogins : Login(user)
    \/ \E token \in {held.tok, Garbage} : read_current_user(token)
    \/ Tick

EventStep ==
    \/ get_all_events
    \/ \E event \in CoreEvents : event_creation(event)
    \/ \E event \in CoreEvents : create_event(event)
    \/ \E event_id \in EventIds, event \in CoreEvents : update_event(event_id, event)
    \/ \E event_id \in EventIds : delete_event(event_id)

Next == Startup \/ AccountStep \/ EventStep

\* the whole system: every route, requests interleaving
Spec == Init /\ [][Next]_vars

\* the event routes alone, over every shape of request body
EventRoutes ==
    \/ get_all_events
    \/ \E event \in EventRequests : event_creation(event)
    \/ \E event \in EventRequests : create_event(event)
    \/ \E event_id \in EventIds, event \in EventRequests : update_event(event_id, event)
    \/ \E event_id \in EventIds : delete_event(event_id)

SpecEvents == Init /\ [][Startup \/ EventRoutes]_vars

\* the account routes alone, over every shape of request body
AccountRoutes ==
    \/ \E user \in SignupRequests : SignupCheck(user)
    \/ \E user \in SignupRequests, salt \in Salts : SignupCommit(user, salt)
    \/ \E user \in LoginRequests : Login(user)
    \/ \E token \in {held.tok, Garbage} : read_current_user(token)
    \/ Tick

SpecAccounts == Init /\ [][Startup \/ AccountRoutes]_vars

\* the token service and the auth dependency, over every shape of token
TokenStep ==
    \/ \E user \in CoreSignups : SignupCheck(user)
    \/ \E user \in CoreSignups, salt \in CoreSalts : SignupCommit(user, salt)
    \/ \E user \in CoreLogins : Login(user)
    \/ \E sub \in {Email1, Email2}, d \in Deltas : IssueToken(sub, d)
    \/ \E token \in PresentedTokens : read_current_user(token)
    \/ Tick

SpecTokens == Init /\ [][Startup \/ TokenStep]_vars

\* the account routes under any environment
SpecEnv == InitEnv /\ [][Startup \/ AccountStep]_vars

---------------------------------------------------------------------------
(* The first revision of the routes (fastapi-backend/app/main.py): no        *)
(* hashing, the existing-user query filters on email and password, and      *)
(* /users lists the table.  It imports app.database only.                    *)

legacy_Startup ==
    /\ phase = "boot"
    /\ phase' = (IF EngineError THEN "failed" ELSE "serving")
    /\ last' = NoResponse
    /\ UNCHANGED <<env, SECRET_KEY, ALGORITHM, dbVars, now, held>>

\* crud.get_email: filter(User.email == email, User.password == password)
get_email(email, password) ==
    {u \in users : u.email = email /\ u.password = password}

\* response_model=UserResponse: first_name and last_name are required strings
ResponseInvalid(u) == u.first_name = None \/ u.last_name = None

\* the presence check and existing_user = get_email(db, user.email, user.password)
legacy_signup(user) ==
    /\ phase = "serving"
    /\ IF user.email = Empty \/ user.password = Empty
       THEN /\ last' = HTTPException("legacy-signup", user, 400,
                                     "Email and password are required.")
            /\ UNCHANGED inflight
       ELSE IF get_email(user.email, user.password) # {}
       THEN /\ last' = HTTPException("legacy-signup", user, 400,
                                     "Email already registered in Spark! Bytes.")
            /\ UNCHANGED inflight
       ELSE /\ Cardinality(inflight) < MaxInFlight
            /\ userSeq + Cardinality({r \in inflight : r.op = "legacy-signup"}) <= MaxUserId
            /\ inflight' = inflight \cup {[op |-> "legacy-signup", req |-> user]}
            /\ last' = NoResponse
    /\ UNCHANGED <<cfgVars, users, userSeq, events, eventSeq, now, held>>

\* crud.create_user: User(email=..., password=...), add, commit, refresh; the
\* names stay NULL, and neither the IntegrityError nor the response
\* validation error is caught
create_user(user) ==
    /\ [op |-> "legacy-signup", req |-> user] \in inflight
    /\ inflight' = inflight \ {[op |-> "legacy-signup", req |-> user]}
    /\ userSeq' = userSeq + 1
    /\ LET db_user == [id |-> userSeq, email |-> user.email,
                       password |-> user.password,
                       first_name |-> None, last_name |-> None]
       IN IF UniqueViolation(user.email)
          THEN /\ users' = users
               /\ last' = InternalServerError("legacy-signup", user)
          ELSE /\ users' = users \cup {db_user}
               /\ last' = IF ResponseInvalid(db_user)
                          THEN InternalServerError("legacy-signup", user)
                          ELSE Response("legacy-signup", user, 200, "",
                                        UserResponse(db_user))
    /\ UNCHANGED <<cfgVars, events, eventSeq, now, held>>

legacy_login(user) ==
    /\ phase = "serving"
    /\ IF user.email = Empty \/ user.password = Empty
       THEN last' = HTTPException("legacy-login", user, 400,
                                  "Email and password are required.")
       ELSE IF get_email(user.email, user.password) = {}
       THEN last' = HTTPException("legacy-login", user, 400,
                                  "Incorrect email or password. Please try again.")
       ELSE last' = Response("legacy-login", user, 200, "",
                             [message |-> "Login successful"])
    /\ UNCHANGED <<cfgVars, dbVars, now, held>>

\* users = db.query(User).all(); return users  (no response_model)
get_all_users ==
    /\ phase = "serving"
    /\ last' = Response("users", None, 200, "", users)
    /\ UNCHANGED <<cfgVars, dbVars, now, held>>

\* as event_creation, with 400 for a missing field
legacy_event_creation(event) ==
    /\ phase = "serving"
    /\ IF EventInvalid(event)
       THEN /\ last' = HTTPException("create-event", event, 400,
                           "All fields are required (name, location, date, and time).")
            /\ UNCHANGED inflight
       ELSE IF get_event(event.name) # {}
       THEN /\ last' = HTTPException("create-event", event, 400,
                                     "Event already exists in Spark! Bytes.")
            /\ UNCHANGED inflight
       ELSE /\ Cardinality(inflight) < MaxInFlight
            /\ eventSeq + Cardinality(PendingCreates) <= MaxEventId
            /\ inflight' = inflight \cup {[op |-> "create-event", req |-> event]}
            /\ last' = NoResponse
    /\ UNCHANGED <<cfgVars, users, userSeq, events, eventSeq, now, held>>

LegacyRequests ==
    { CreateUser(Email1, Pwd1, NameA, NameB),
      CreateUser(Email1, Pwd2, NameA, NameB),
      CreateUser(Email2, Pwd2, NameA, NameB),
      CreateUser(Empty, Pwd1, NameA, NameB),
      CreateUser(Email1, Empty, NameA, NameB) }

LegacyEvents ==
    { CreateEvent("Hack Night", "d", "l", "2025", "6pm"),
      CreateEvent("", "d", "l", "2025", "6pm") }

LegacyStep ==
    \/ \E user \in LegacyRequests : legacy_signup(user)
    \/ \E user \in LegacyRequests : create_user(user)
    \/ \E user \in LegacyRequests : legacy_login(user)
    \/ get_all_users
    \/ get_all_events
    \/ \E event \in LegacyEvents : legacy_event_creation(event)
    \/ \E event \in LegacyEvents : create_event(event)

SpecLegacy == Init /\ [][legacy_Startup \/ LegacyStep]_vars

---------------------------------------------------------------------------
(* Properties *)

UserIds(us) == {u.id : u \in us}
EventIdsOf(es) == {e.id : e \in es}

\* a signup request that has passed the existing-user query in this step
SignupAdmitted == {r \in inflight' \ inflight : r.op = "signup"}

C1_Step ==
    /\ \A u \in users', w \in users' : u.email = w.email => u = w
    /\ \A r \in SignupAdmitted :
          SignupInvalid(r.req) = "" /\ UsersByEmail(r.req.email) = {}
    /\ last'.op = "signup" =>
          /\ (SignupInvalid(last'.req) = "" /\ inflight' = inflight) =>
                /\ UsersByEmail(last'.req.email) # {}
                /\ last'.status = 400
                /\ last'.detail = "Email already registered in Spark! Bytes."
                /\ users' = users
          /\ (inflight' # inflight /\ UsersByEmail(last'.req.email) = {}) =>
                last'.status = 200
          /\ last'.status = 200 =>
                /\ UsersByEmail(last'.req.email) = {}
                /\ \E u \in users' \ users :
                      /\ users' = users \cup {u}
                      /\ u.email = last'.req.email
                      /\ u.id \notin UserIds(users)
                      /\ last'.body = UserResponse(u)

\* C1: a signup with valid fields for an unregistered email is admitted and,
\* committing while the email is still unregistered, answers 200 and stores
\* exactly one record for it; every signup arriving for a registered email
\* answers 400 and leaves users unchanged; no two records share an email.
C1_SignupOncePerEmail == [][C1_Step]_vars

C1_Witness ==
    /\ last.op = "signup"
    /\ last.status = 400
    /\ Cardinality(UsersByEmail(last.req.email)) = 1

\* C2: a signup that is answered with neither 200 nor 422 (it lost at the
\* pre-check or at the uniqueness constraint) is answered 400 "Email already
\* registered", and exactly one record for its email is stored.
C2_RaceLoserGetsConflict ==
    (last.op = "signup" /\ last.status \notin {200, 422}) =>
        /\ last.status = 400
        /\ last.detail = "Email already registered in Spark! Bytes."
        /\ Cardinality(UsersByEmail(last.req.email)) = 1

\* C3: a token issued with an explicit expires_delta expires at its issuance
\* instant plus that delta, and one issued with delta <= 0 is rejected by
\* get_current_user at every later instant.
C3_ExplicitTtlIsUsed ==
    (held.by = "direct" /\ held.delta.given) =>
        /\ held.tok.payload.exp = held.iat + held.delta.minutes
        /\ (held.delta.minutes <= 0 /\ now > held.iat) =>
              get_current_user(held.tok).status = 401

\* C4: a login answers 200 exactly when a stored user has the request's
\* email and a hash of the request's password; then the body is
\* {access_token, token_type = "bearer"} and the token verifies at once to
\* that email; otherwise the answer is 400 and carries no token.
C4_Login ==
    last.op = "login" =>
        IF \E u \in users : /\ u.email = last.req.email
                            /\ u.password.digest = Digest(u.password.salt, last.req.password)
        THEN /\ last.status = 200
             /\ last.body.token_type = "bearer"
             /\ last.body.access_token.payload.sub = last.req.email
             /\ get_current_user(last.body.access_token).status = 200
             /\ get_current_user(last.body.access_token).body.email = last.req.email
        ELSE /\ last.status = 400
             /\ last.body = None

C4_Witness ==
    /\ last.op = "login"
    /\ last.status = 200
    /\ last.req.password = Pwd2
    /\ now > 0

\* what a token must satisfy for get_current_user to resolve a principal
Verifies(t) ==
    /\ t.fmt = "jwt"
    /\ t.key = "secret"
    /\ t.alg = "HS256"
    /\ t.payload.exp >= now

\* C5: get_current_user answers with a user exactly when the token verifies,
\* carries a subject and a user with that email is stored, and that user's
\* email is the subject; in every other case the answer is the one
\* 401 "Invalid token".
C5_AuthDependency ==
    last.op = "profile" =>
        IF /\ Verifies(last.req)
           /\ "sub" \in DOMAIN last.req.payload
           /\ \E u \in users : u.email = last.req.payload.sub
        THEN /\ last.status = 200
             /\ last.body.email = last.req.payload.sub
             /\ \E u \in users : last.body = UserResponse(u)
        ELSE last = [op |-> "profile", req |-> last.req, status |-> 401,
                     detail |-> "Invalid token", body |-> None]

C5_Witness ==
    /\ last.op = "profile"
    /\ last.status = 401
    /\ Verifies(last.req)
    /\ "sub" \in DOMAIN last.req.payload
    /\ users # {}

C6_State ==
    held.by = "login" =>
        /\ held.tok.payload.exp = held.iat + ACCESS_TOKEN_EXPIRE_MINUTES
        /\ IF now <= held.tok.payload.exp
           THEN /\ get_current_user(held.tok).status = 200
                /\ get_current_user(held.tok).body.email = held.tok.payload.sub
           ELSE get_current_user(held.tok).status = 401
        /\ (last.op = "profile" /\ last.req = held.tok) =>
              (last.status = 200 <=> now <= held.tok.payload.exp)

C6_Rejected == held.by = "login" /\ get_current_user(held.tok).status = 401

\* C6: a token minted at login expires ACCESS_TOKEN_EXPIRE_MINUTES after its
\* issuance; in every state up to that instant get_current_user resolves it
\* to its user, in every later state it answers 401, and the responses to
\* requests carrying it say the same; once it is rejected, no step of any
\* route makes it accepted again.
C6_TokenLifetime ==
    [][C6_State' /\ ((C6_Rejected /\ held' = held) => C6_Rejected')]_vars

C6_Witness ==
    /\ held.by = "login"
    /\ now > held.tok.payload.exp
    /\ last.op = "profile"
    /\ last.req = held.tok
    /\ last.status = 401
    /\ events # {}

\* the request bodies the claim names: an empty field, an email with no "@",
\* a password shorter than 8 or lacking a lowercase letter, an uppercase
\* letter or a digit
C7_Bad(user) ==
    \/ Len(user.email) = 0 \/ Len(user.password) = 0
    \/ Len(user.first_name) = 0 \/ Len(user.last_name) = 0
    \/ \A i \in 1 .. Len(user.email) : user.email[i] # "@"
    \/ Len(user.password) < 8
    \/ \A i \in 1 .. Len(user.password) : user.password[i] \notin LowerCase
    \/ \A i \in 1 .. Len(user.password) : user.password[i] \notin UpperCase
    \/ \A i \in 1 .. Len(user.password) : user.password[i] \notin Digits

\* C7: such a signup request is answered 422 in the step it arrives, stores
\* no user and never passes on to the insert, registered email or not.
C7_InvalidSignupRejected ==
    [][ /\ \A r \in SignupAdmitted : ~C7_Bad(r.req)
        /\ (last'.op = "signup" /\ C7_Bad(last'.req)) =>
              /\ last'.status = 422
              /\ users' = users
              /\ userSeq' = userSeq
              /\ inflight' = inflight ]_vars

C7_Witness ==
    /\ last.op = "signup"
    /\ last.status = 422
    /\ last.req.password = PwdNoUpper
    /\ UsersByEmail(last.req.email) # {}

\* a create-event request that has passed the existing-event query in this step
CreateAdmitted == {r \in inflight' \ inflight : r.op = "create-event"}

\* C8: a create-event request with every field non-empty is answered 400
\* and adds nothing when a stored event has its name, and otherwise passes
\* on to the insert, which answers 200 and adds exactly one record whose id
\* no stored event has.
C8_CreateEvent ==
    [][ /\ \A r \in CreateAdmitted :
              /\ ~EventInvalid(r.req)
              /\ \A e \in events : e.name # r.req.name
        /\ last'.op = "create-event" =>
              /\ (~EventInvalid(last'.req) /\ inflight' = inflight) =>
                    /\ \E e \in events : e.name = last'.req.name
                    /\ last'.status = 400
                    /\ events' = events
              /\ inflight' # inflight =>
                    /\ last'.status = 200
                    /\ \E e \in events' \ events :
                          /\ events' = events \cup {e}
                          /\ e.id \notin EventIdsOf(events)
                          /\ e.name = last'.req.name
                          /\ last'.body = EventResponse(e)
              /\ last'.status = 200 => inflight' # inflight ]_vars

C8_Witness ==
    /\ last.op = "create-event"
    /\ last.status = 400
    /\ eventSeq > 2
    /\ Cardinality(events) = 1

\* C9: update and delete answer 404 and change no event when no stored event
\* has the id; otherwise delete removes exactly the event with that id and
\* update replaces that event's five fields by the request's, keeping its
\* id; in both cases every other event and every user stay as they were.
C9_UpdateDelete ==
    [][ /\ last'.op = "update-event" =>
              LET id == last'.req[1]
                  body == last'.req[2]
              IN /\ users' = users
                 /\ IF \A e \in events : e.id # id
                    THEN last'.status = 404 /\ events' = events
                    ELSE /\ last'.status = 200
                         /\ {e \in events' : e.id # id} = {e \in events : e.id # id}
                         /\ \A e \in events' : e.id = id =>
                               /\ e.name = body.name
                               /\ e.description = body.description
                               /\ e.location = body.location
                               /\ e.date = body.date
                               /\ e.time = body.time
                         /\ Cardinality(events') = Cardinality(events)
        /\ last'.op = "delete-event" =>
              LET id == last'.req
              IN /\ users' = users
                 /\ IF \A e \in events : e.id # id
                    THEN last'.status = 404 /\ events' = events
                    ELSE /\ last'.status = 200
                         /\ events' = {e \in events : e.id # id}
                         /\ Cardinality(events') = Cardinality(events) - 1 ]_vars

C9_Witness ==
    /\ last.op = "delete-event"
    /\ last.status = 200
    /\ events # {}
    /\ users # {}

\* C10: the service accepts requests only with SECRET_KEY and ALGORITHM set,
\* and no login is answered with a server error.
C10_MissingSecretFailsStartup ==
    /\ phase = "serving" => (SECRET_KEY # None /\ ALGORITHM # None)
    /\ last.op = "login" => last.status # 500

\* the user records a response carries
ReturnedUsers(resp) ==
    IF resp.op = "users" THEN resp.body
    ELSE IF resp.op \in {"signup", "legacy-signup", "profile"} /\ resp.status = 200
    THEN {resp.body}
    ELSE {}

\* C11: every user record in a response of any route has exactly the fields
\* id, email, first_name and last_name (no stored password), and a login
\* response carries only the token and its type.
C11_NoPasswordInResponses ==
    /\ \A u \in ReturnedUsers(last) :
          DOMAIN u = {"id", "email", "first_name", "last_name"}
    /\ (last.op = "login" /\ last.status = 200) =>
          DOMAIN last.body = {"access_token", "token_type"}

LegacyAdmitted == {r \in inflight' \ inflight : r.op = "legacy-signup"}

\* C13: a first-revision signup whose email is registered when it arrives
\* does not pass the existing-user check, whatever its password: it is
\* answered 400 at once ("Email already registered" when the password is
\* not blank) and the users table stays as it was.
C13_LegacyDuplicateRejected ==
    [][ /\ \A r \in LegacyAdmitted : UsersByEmail(r.req.email) = {}
        /\ (last'.op = "legacy-signup" /\ UsersByEmail(last'.req.email) # {}) =>
              /\ last'.status = 400
              /\ last'.req.password # <<>> =>
                    last'.detail = "Email already registered in Spark! Bytes."
              /\ users' = users ]_vars

\* C14: no two stored events share a name.
C14_EventNamesUnique ==
    \A e \in events, f \in events : e.name = f.name => e = f

===========================================================================
